---- MODULE Spec2Model ----
(***************************************************************************)
(* Model of simple_agar/envs/base_world.py (class BaseWorld).              *)
(*                                                                         *)
(* Number representation.  The program computes in float32/float64; the    *)
(* model computes in fixed point:                                          *)
(*   - a mass is an integer number of hundredths (4.0 is 400);             *)
(*   - a length is an integer number of 1/200 of the unit square's side    *)
(*     (1.0 is WorldSize = 200);                                           *)
(*   - a distance is kept as its square (in length units squared), a       *)
(*     radius as its square times 100 (mass in hundredths times c*c), so   *)
(*     that every comparison the program makes between distances and       *)
(*     radii is decided exactly and no square root is taken;               *)
(*   - a product with a fraction is truncated (MulFix).                    *)
(* The world is built with player_speed_inv_pow = -1, player_mass_decay =  *)
(* 0.99 and num_pellets = 1 (constructor arguments); the other arguments   *)
(* keep their defaults.  Players and pellets are numbered from 1.          *)
(***************************************************************************)
EXTENDS Integers, Sequences, FiniteSets

VARIABLES
    num_players,                  \* self.num_players, fixed by __init__
    initialized,                  \* TRUE once reset has created the _player_* attributes
    player_masses,                \* self._player_masses
    player_is_alive,              \* self._player_is_alive
    player_locations,             \* self._player_locations
    pellet_locations,             \* self._pellet_locations
    player_radii,                 \* self._player_radii (squared, times 100)
    player_to_player_distances,   \* self._player_to_player_distances (squared)
    player_to_pellet_distances,   \* self._player_to_pellet_distances (squared)
    actions,                      \* the caller's action array as step leaves it
    prev_masses,                  \* step's local prev_masses
    player_eats_player,           \* _update_player_masses' local, after the division
    player_eats_pellet,           \* _update_player_masses' local, after the division
    pellet_credit,                \* the terms player_eats_pellet * pellet_mass of line 208
    player_credit,                \* the terms player_eats_player * _player_masses of line 209
    reward,                       \* returned by step
    terminated,                   \* returned by step
    truncated,                    \* returned by step
    call,                         \* how the last call ended: "none", "reset", "step", "error"
    ticks                         \* number of steps since the last reset

vars == <<num_players, initialized, player_masses, player_is_alive, player_locations,
          pellet_locations, player_radii, player_to_player_distances,
          player_to_pellet_distances, actions, prev_masses, player_eats_player,
          player_eats_pellet, pellet_credit, player_credit, reward, terminated,
          truncated, call, ticks>>

-----------------------------------------------------------------------------
(* Bounds of the model *)

\* calls explored after one reset: a world that has taken MaxTicks steps is
\* explored no further
MaxTicks == 2

\* the values of num_players the world is built with
PlayerCounts == {1, 2}

\* the points of [0,1)^2 the random generator is taken to return
SamplePoints == {<<96, 100>>, <<100, 100>>, <<198, 100>>}

-----------------------------------------------------------------------------
(* Constructor arguments, in fixed point *)

WorldSize == 200
num_pellets == 1
pellet_mass == 100
player_mass_base == 400
player_mass_decay == 99
player_speed_scale == 16
sqrt_mass_to_radius == 2
penalty_base_mass == 4

Players == 1..num_players
Pellets == 1..num_pellets

\* a mass (hundredths) times a fraction given in hundredths
MulFix(m, f) == (m * f) \div 100

\* self.pellet_radius, squared and times 100
pellet_radius == pellet_mass * sqrt_mass_to_radius * sqrt_mass_to_radius

\* self._action_to_direction: noop, right, up, left, down
action_to_direction == <<<<0, 0>>, <<1, 0>>, <<0, 1>>, <<-1, 0>>, <<0, -1>>>>

Actions == 0..4
ActionVectors == [Players -> Actions]

RECURSIVE Sum(_, _)
Sum(f, S) == IF S = {} THEN 0
             ELSE LET x == CHOOSE y \in S : TRUE IN f[x] + Sum(f, S \ {x})

Max(a, b) == IF a >= b THEN a ELSE b

\* a vector over 1..n and a matrix over 1..n, 1..m, as arrays
Vec(f, n) == SubSeq(f, 1, n)
Mat(f, n, m) == SubSeq([i \in 1..n |-> SubSeq(f[i], 1, m)], 1, n)

-----------------------------------------------------------------------------
(* _update_player_locations *)

\* actions[~self._player_is_alive] = 0
ForceNoop(alive, a) == Vec([i \in Players |-> IF alive[i] THEN a[i] ELSE 0], num_players)

\* np.power(np.clip(m, a_min=1e-5), player_speed_inv_pow) * player_speed_scale with
\* player_speed_inv_pow = -1; the clip floor 1e-5 is the smallest positive mass
Speed(m) == (player_speed_scale * 100) \div Max(m, 1)

MoveLocations(locs, a, masses) ==
    Vec([i \in Players |->
            LET dir == action_to_direction[a[i] + 1]
            IN  <<locs[i][1] + dir[1] * Speed(masses[i]),
                  locs[i][2] + dir[2] * Speed(masses[i])>>], num_players)

OutOfBounds(p) == p[1] < 0 \/ p[1] >= WorldSize \/ p[2] < 0 \/ p[2] >= WorldSize

\* variant of PlayersOffScreen that tests only the lower edge (loc < 0)
OffScreenBelowOnly(alive, locs) ==
    {i \in Players : alive[i] /\ (locs[i][1] < 0 \/ locs[i][2] < 0)}

\* np.where(alive & np.any((loc < 0) | (loc >= 1), axis=-1))
PlayersOffScreen(alive, locs) == {i \in Players : alive[i] /\ OutOfBounds(locs[i])}

-----------------------------------------------------------------------------
(* _update_player_radii, _update_player_distances *)

\* np.sqrt(m) * sqrt_mass_to_radius, squared and times 100
Radii(masses) ==
    Vec([i \in Players |-> masses[i] * sqrt_mass_to_radius * sqrt_mass_to_radius],
        num_players)

Dist2(p, q) == (p[1] - q[1]) * (p[1] - q[1]) + (p[2] - q[2]) * (p[2] - q[2])

\* distance_matrix(locations, locations)
PlayerDistances(locs) ==
    Mat([i \in Players |-> [j \in Players |-> Dist2(locs[i], locs[j])]],
        num_players, num_players)

\* distance_matrix(locations, pellet locations)
PelletDistances(locs, pels) ==
    Mat([i \in Players |-> [k \in Pellets |-> Dist2(locs[i], pels[k])]],
        num_players, num_pellets)

-----------------------------------------------------------------------------
(* _update_player_masses *)

\* sqrt(d) < sqrt(a) + sqrt(b), for d, a, b >= 0
LessThanSum(d, a, b) ==
    LET x == d - a - b
    IN  x < 0 \/ (x < a + b /\ x * x < 4 * a * b)

\* (distances < radii[:, newaxis]) & (radii[:, newaxis] > radii[newaxis, :]), as 0/1
EatsPlayer(dist, radii) ==
    Mat([i \in Players |-> [j \in Players |->
            IF dist[i][j] * 100 < radii[i] /\ radii[i] > radii[j] THEN 1 ELSE 0]],
        num_players, num_players)

\* (distances < radii[:, newaxis] + pellet_radius) & (radii[:, newaxis] > pellet_radius)
EatsPellet(dist, radii) ==
    Mat([i \in Players |-> [k \in Pellets |->
            IF LessThanSum(dist[i][k] * 100, radii[i], pellet_radius)
               /\ radii[i] > pellet_radius
            THEN 1 ELSE 0]],
        num_players, num_pellets)

\* np.where(np.any(eats, axis=0)): the columns with an eater
Eaten(eats, ncols) == {j \in 1..ncols : \E i \in Players : eats[i][j] # 0}

ColumnSum(eats, j) == Sum([i \in Players |-> eats[i][j]], Players)

\* variant of DivideEvenly that leaves the matrix undivided
DivideNot(eats, ncols, eaten) ==
    Mat([i \in Players |-> [j \in 1..ncols |-> <<eats[i][j], 1>>]], num_players, ncols)

\* eats[:, eaten] /= np.sum(eats[:, eaten], axis=0, keepdims=True); an entry of the
\* result is the fraction <<numerator, denominator>>
DivideEvenly(eats, ncols, eaten) ==
    Mat([i \in Players |-> [j \in 1..ncols |->
            IF j \in eaten THEN <<eats[i][j], ColumnSum(eats, j)>> ELSE <<eats[i][j], 1>>]],
        num_players, ncols)

\* a fraction times a mass
Times(w, m) == (w[1] * m) \div w[2]

\* player_eats_pellet * self.pellet_mass
PelletCredit(weights) ==
    Mat([i \in Players |-> [k \in Pellets |-> Times(weights[i][k], pellet_mass)]],
        num_players, num_pellets)

\* variant of PlayerCredit that broadcasts the masses along the rows (the eater's
\* own mass instead of the victim's)
PlayerCreditOfEater(weights, masses) ==
    Mat([i \in Players |-> [j \in Players |-> Times(weights[i][j], masses[i])]],
        num_players, num_players)

\* player_eats_player * self._player_masses (the masses broadcast along the columns)
PlayerCredit(weights, masses) ==
    Mat([i \in Players |-> [j \in Players |-> Times(weights[i][j], masses[j])]],
        num_players, num_players)

\* masses += np.sum(credit, axis=-1)
AddCredit(masses, credit, ncols) ==
    Vec([i \in Players |-> masses[i] + Sum(credit[i], 1..ncols)], num_players)

\* variant of DecayMasses without the floor a_min
DecayNoFloor(masses, alive) ==
    Vec([i \in Players |->
            IF alive[i] THEN MulFix(masses[i], player_mass_decay) ELSE masses[i]],
        num_players)

\* masses[alive] = np.clip(masses[alive] * decay, a_min=player_mass_base, a_max=None)
DecayMasses(masses, alive) ==
    Vec([i \in Players |->
            IF alive[i] THEN Max(MulFix(masses[i], player_mass_decay), player_mass_base)
            ELSE masses[i]], num_players)

-----------------------------------------------------------------------------
(* _update_player_is_alive *)

\* variant of KillPlayers that computes the flags afresh instead of clearing them
KillPlayersAnew(alive, eaten, off) ==
    Vec([i \in Players |-> ~(i \in eaten \/ i \in off)], num_players)

\* alive[players_eaten] = False; alive[players_off_screen] = False
KillPlayers(alive, eaten, off) ==
    Vec([i \in Players |-> IF i \in eaten \/ i \in off THEN FALSE ELSE alive[i]],
        num_players)

\* masses[~alive] = 0
ZeroDead(masses, alive) ==
    Vec([i \in Players |-> IF alive[i] THEN masses[i] ELSE 0], num_players)

-----------------------------------------------------------------------------
(* _update_pellet_locations *)

\* pellet_locations[pellets_eaten] = np_random.random(shape)
RespawnPellets(pels, eaten, fresh) ==
    Vec([k \in Pellets |-> IF k \in eaten THEN fresh[k] ELSE pels[k]], num_pellets)

\* distances[:, pellets_eaten] = distance_matrix(locations, pellet_locations[pellets_eaten])
UpdatePelletDistances(dist, locs, pels, eaten) ==
    Mat([i \in Players |-> [k \in Pellets |->
            IF k \in eaten THEN Dist2(locs[i], pels[k]) ELSE dist[i][k]]],
        num_players, num_pellets)

-----------------------------------------------------------------------------
(* _get_reward, _get_terminated, _get_truncated *)

GetReward(masses, prev) ==
    Vec([i \in Players |->
            IF masses[i] = player_mass_base
            THEN masses[i] - prev[i] - penalty_base_mass
            ELSE masses[i] - prev[i]], num_players)

AliveCount(alive) == Cardinality({i \in Players : alive[i]})

\* variant of GetTerminated without the single-player case
GetTerminatedAtMostOne(alive) == AliveCount(alive) <= 1

GetTerminated(alive) ==
    IF num_players = 1 THEN AliveCount(alive) = 0 ELSE AliveCount(alive) <= 1

GetTruncated == FALSE

-----------------------------------------------------------------------------
(* The state after __init__: the _player_* attributes do not exist yet *)

Init ==
    /\ num_players \in PlayerCounts
    /\ initialized = FALSE
    /\ player_masses = <<>>
    /\ player_is_alive = <<>>
    /\ player_locations = <<>>
    /\ pellet_locations = <<>>
    /\ player_radii = <<>>
    /\ player_to_player_distances = <<>>
    /\ player_to_pellet_distances = <<>>
    /\ actions = <<>>
    /\ prev_masses = <<>>
    /\ player_eats_player = <<>>
    /\ player_eats_pellet = <<>>
    /\ pellet_credit = <<>>
    /\ player_credit = <<>>
    /\ reward = <<>>
    /\ terminated = FALSE
    /\ truncated = FALSE
    /\ call = "none"
    /\ ticks = 0

\* what reset leaves besides the world: no step has returned anything yet
NoStepResult ==
    /\ actions' = <<>>
    /\ prev_masses' = <<>>
    /\ player_eats_player' = <<>>
    /\ player_eats_pellet' = <<>>
    /\ pellet_credit' = <<>>
    /\ player_credit' = <<>>
    /\ reward' = <<>>
    /\ terminated' = FALSE
    /\ truncated' = FALSE

\* reset(seed, options)
Reset ==
    /\ ticks < MaxTicks
    /\ \E locs \in [Players -> SamplePoints], pels \in [Pellets -> SamplePoints] :
        LET masses == Vec([i \in Players |-> player_mass_base], num_players)
        IN  /\ initialized' = TRUE
            /\ player_masses' = masses
            /\ player_is_alive' = Vec([i \in Players |-> TRUE], num_players)
            /\ player_locations' = Vec(locs, num_players)
            /\ pellet_locations' = Vec(pels, num_pellets)
            /\ player_to_player_distances' = PlayerDistances(locs)
            /\ player_to_pellet_distances' = PelletDistances(locs, pels)
            /\ player_radii' = Radii(masses)
    /\ NoStepResult
    /\ call' = "reset"
    /\ ticks' = 0
    /\ UNCHANGED num_players

\* step(actions) before any reset: self._player_is_alive does not exist and the
\* first statement of _update_player_locations raises AttributeError
StepBeforeReset ==
    /\ ~initialized
    /\ call' = "error"
    /\ UNCHANGED <<num_players, initialized, player_masses, player_is_alive,
                   player_locations, pellet_locations, player_radii,
                   player_to_player_distances, player_to_pellet_distances, actions,
                   prev_masses, player_eats_player, player_eats_pellet, pellet_credit,
                   player_credit, reward, terminated, truncated, ticks>>

\* step(actions) on an initialized world.  Every intermediate array of the body is
\* bound once (\E over a singleton), in the order the statements compute them.
Step(a) ==
    /\ initialized
    /\ ticks < MaxTicks
    /\ \E forced \in {ForceNoop(player_is_alive, a)} :
       \E locs \in {MoveLocations(player_locations, forced, player_masses)} :
       \E off \in {PlayersOffScreen(player_is_alive, locs)} :
       \E ppDist \in {PlayerDistances(locs)} :
       \E pelDist \in {PelletDistances(locs, pellet_locations)} :
       \E radii \in {Radii(player_masses)} :
       \E eatsPl \in {EatsPlayer(ppDist, radii)} :
       \E eatsPe \in {EatsPellet(pelDist, radii)} :
       \E plEaten \in {Eaten(eatsPl, num_players)} :
       \E peEaten \in {Eaten(eatsPe, num_pellets)} :
       \E wPl \in {DivideEvenly(eatsPl, num_players, plEaten)} :
       \E wPe \in {DivideEvenly(eatsPe, num_pellets, peEaten)} :
       \E credPe \in {PelletCredit(wPe)} :
       \E m1 \in {AddCredit(player_masses, credPe, num_pellets)} :
       \E credPl \in {PlayerCredit(wPl, m1)} :
       \E m2 \in {AddCredit(m1, credPl, num_players)} :
       \E m3 \in {DecayMasses(m2, player_is_alive)} :
       \E alive \in {KillPlayers(player_is_alive, plEaten, off)} :
       \E masses \in {ZeroDead(m3, alive)} :
           /\ actions' = forced
           /\ player_locations' = locs
           /\ player_to_player_distances' = ppDist
           /\ player_radii' = radii
           /\ prev_masses' = player_masses
           /\ player_eats_player' = wPl
           /\ player_eats_pellet' = wPe
           /\ pellet_credit' = credPe
           /\ player_credit' = credPl
           /\ player_is_alive' = alive
           /\ player_masses' = masses
           \* _update_pellet_locations: a fresh random point for every eaten pellet,
           \* then the distances to those pellets
           /\ \E fresh \in [peEaten -> SamplePoints] :
              \E pels \in {RespawnPellets(pellet_locations, peEaten, fresh)} :
                 /\ pellet_locations' = pels
                 /\ player_to_pellet_distances' =
                        UpdatePelletDistances(pelDist, locs, pels, peEaten)
           /\ reward' = GetReward(masses, player_masses)
           /\ terminated' = GetTerminated(alive)
           /\ truncated' = GetTruncated
    /\ call' = "step"
    /\ ticks' = ticks + 1
    /\ UNCHANGED <<num_players, initialized>>

StepAny == \E a \in ActionVectors : Step(a)

Next == Reset \/ StepBeforeReset \/ StepAny

Spec == Init /\ [][Next]_vars

-----------------------------------------------------------------------------
(* Scenario A: a world in mid-episode whose first agent has grown to mass 16    *)
(* while the second is still at the base mass 4, at any of the sample points.   *)

InitA ==
    /\ num_players = 2
    /\ initialized = TRUE
    /\ player_masses = <<1600, 400>>
    /\ player_is_alive = <<TRUE, TRUE>>
    /\ \E locs \in [Players -> SamplePoints], pels \in [Pellets -> SamplePoints] :
          /\ player_locations = Vec(locs, num_players)
          /\ pellet_locations = Vec(pels, num_pellets)
          /\ player_to_player_distances = PlayerDistances(locs)
          /\ player_to_pellet_distances = PelletDistances(locs, pels)
    /\ player_radii = Radii(player_masses)
    /\ actions = <<>>
    /\ prev_masses = <<>>
    /\ player_eats_player = <<>>
    /\ player_eats_pellet = <<>>
    /\ pellet_credit = <<>>
    /\ player_credit = <<>>
    /\ reward = <<>>
    /\ terminated = FALSE
    /\ truncated = FALSE
    /\ call = "reset"
    /\ ticks = 0

NextA == Reset \/ StepAny

SpecA == InitA /\ [][NextA]_vars

-----------------------------------------------------------------------------
(* Properties *)

\* the players with a share of column j of an eats matrix
EatersOf(eats, j) == {i \in Players : eats[i][j][1] # 0}

\* the last call was a step, so that step's arrays are there
Stepped == initialized /\ call = "step"

\* C1: death permanence.  A step never revives a dead agent, whatever action is
\* submitted for it: an agent that is not alive when step is called is not alive
\* and has mass 0 when step returns.
DeathPermanence ==
    [][\A i \in Players :
          (initialized /\ call' = "step" /\ ~player_is_alive[i])
              => (~player_is_alive'[i] /\ player_masses'[i] = 0)]_vars

\* C1 witness: a step was taken with an agent that was already dead (mass 0
\* on entry), and it is still dead.
DeadAgentSteppedAgain ==
    /\ Stepped
    /\ \E i \in Players :
          prev_masses[i] = 0 /\ ~player_is_alive[i] /\ player_masses[i] = 0

\* C2: termination rule.  After every step, terminated is true exactly when at
\* most one agent is alive (num_players > 1) or none is (num_players = 1), and
\* truncated is false.
TerminationRule ==
    Stepped =>
        LET n == Cardinality({i \in Players : player_is_alive[i]})
        IN  /\ terminated = (IF num_players > 1 THEN n <= 1 ELSE n = 0)
            /\ truncated = FALSE

\* C2 witness: a step of a two-player world that left one agent alive and
\* returned terminated.
LastSurvivorTerminates ==
    /\ Stepped
    /\ num_players = 2
    /\ Cardinality({i \in Players : player_is_alive[i]}) = 1
    /\ terminated

\* the shares of one victim: every eater in E holds the fraction 1/|E| and is
\* credited that fraction of the contributed mass, the others are credited
\* nothing, and the credits add up to the contributed mass (short of it by less
\* than one hundredth per eater, the rounding of the shares)
EvenShares(E, fraction, credit, contributed) ==
    LET total == Sum(credit, Players)
    IN  /\ \A i \in E : /\ fraction[i] = <<1, Cardinality(E)>>
                        /\ credit[i] = contributed \div Cardinality(E)
        /\ \A i \in Players \ E : credit[i] = 0
        /\ total <= contributed
        /\ contributed - total < Cardinality(E)

\* the shares of pellet k, if it has an eater
PelletSplit(k) ==
    LET E == EatersOf(player_eats_pellet, k)
    IN  E # {} => EvenShares(E, [i \in Players |-> player_eats_pellet[i][k]],
                             [i \in Players |-> pellet_credit[i][k]], pellet_mass)

\* the shares of victim agent j, if it has an eater, for a contributed mass
PlayerSplit(j, contributed) ==
    LET E == EatersOf(player_eats_player, j)
    IN  E # {} => EvenShares(E, [i \in Players |-> player_eats_player[i][j]],
                             [i \in Players |-> player_credit[i][j]], contributed)

\* C3 as stated: equal split and conservation, a victim agent contributing the
\* mass it had when the step began.
EqualSplitOfEntryMass ==
    Stepped =>
        /\ \A k \in Pellets : PelletSplit(k)
        /\ \A j \in Players : PlayerSplit(j, prev_masses[j])

\* C3 amended: equal split and conservation, a victim agent contributing the
\* mass it had when the step began plus the pellet mass it was itself credited
\* in that step.
EqualSplitConservation ==
    Stepped =>
        /\ \A k \in Pellets : PelletSplit(k)
        /\ \A j \in Players :
              PlayerSplit(j, prev_masses[j] + Sum(pellet_credit[j], Pellets))

\* C3 witness: a pellet shared by two eaters, and an agent eaten in the same
\* step.
SharedCapture ==
    /\ Stepped
    /\ \E k \in Pellets : Cardinality(EatersOf(player_eats_pellet, k)) = 2
    /\ \E j \in Players : prev_masses[j] > 0 /\ EatersOf(player_eats_player, j) # {}

\* Scenario A before the step: masses 16 and 4, the second agent within the
\* first one's radius, the pellet out of both agents' reach.
ScenarioA ==
    /\ initialized
    /\ num_players = 2
    /\ player_masses = <<1600, 400>>
    /\ player_is_alive = <<TRUE, TRUE>>
    /\ Dist2(player_locations[1], player_locations[2]) * 100
          < 1600 * sqrt_mass_to_radius * sqrt_mass_to_radius
    /\ \A i \in Players, k \in Pellets :
          ~LessThanSum(Dist2(player_locations[i], pellet_locations[k]) * 100,
                       player_masses[i] * sqrt_mass_to_radius * sqrt_mass_to_radius,
                       pellet_mass * sqrt_mass_to_radius * sqrt_mass_to_radius)

\* C4 as stated: after one step of scenario A with both agents choosing noop the
\* first agent's mass is 16*d + 4, the second agent's is 0 and it is not alive.
ScenarioADecayBeforeCredit ==
    [][(ScenarioA /\ call' = "step" /\ actions' = <<0, 0>>)
          => /\ player_masses'[1] = (1600 * player_mass_decay) \div 100 + 400
             /\ player_masses'[2] = 0
             /\ ~player_is_alive'[2]]_vars

\* C4 amended: after that step the first agent's mass is (16 + 4)*d, the
\* second agent's is 0 and it is not alive.
ScenarioADecayAfterCredit ==
    [][(ScenarioA /\ call' = "step" /\ actions' = <<0, 0>>)
          => /\ player_masses'[1] = ((1600 + 400) * player_mass_decay) \div 100
             /\ player_masses'[2] = 0
             /\ ~player_is_alive'[2]]_vars

\* C4 witness: the state one noop step after scenario A, the second agent eaten
\* by the first and the pellet untouched.
ScenarioAStepped ==
    /\ Stepped
    /\ ticks = 1
    /\ actions = <<0, 0>>
    /\ prev_masses = <<1600, 400>>
    /\ EatersOf(player_eats_player, 2) = {1}
    /\ \A k \in Pellets : EatersOf(player_eats_pellet, k) = {}
    /\ ~player_is_alive[2]

\* C5: a step before any reset, or after a step that returned terminated with
\* no reset in between, ends in an error and runs no tick.
UsageErrorsReported ==
    [][(~initialized \/ terminated) => call' # "step"]_vars

\* C6: after a step, no pellet eaten and relocated in that step lies inside the
\* radius of an agent that is alive.
RespawnValidity ==
    Stepped =>
        \A k \in Pellets :
            EatersOf(player_eats_pellet, k) # {} =>
                \A i \in Players :
                    player_is_alive[i] =>
                        Dist2(player_locations[i], pellet_locations[k]) * 100
                            >= player_masses[i] * sqrt_mass_to_radius * sqrt_mass_to_radius

\* C7: every coordinate of the player and pellet locations of an observation
\* lies in [0, 1].
ObservationBounds ==
    initialized =>
        /\ \A i \in Players : \A c \in 1..2 :
              player_locations[i][c] >= 0 /\ player_locations[i][c] <= WorldSize
        /\ \A k \in Pellets : \A c \in 1..2 :
              pellet_locations[k][c] >= 0 /\ pellet_locations[k][c] <= WorldSize

\* C8: after reset and after every step an agent is alive exactly when its mass
\* is not zero, and a living agent's mass is at least the base mass.
MassAliveInvariant ==
    initialized =>
        \A i \in Players :
            /\ player_is_alive[i] <=> player_masses[i] # 0
            /\ player_is_alive[i] => player_masses[i] >= player_mass_base

\* C8 witness: a step in which one agent died and another, having eaten
\* nothing, would have decayed below the base mass and was held at it.
HeldAtFloor ==
    /\ Stepped
    /\ \E i \in Players : ~player_is_alive[i] /\ prev_masses[i] > 0
    /\ \E i \in Players :
          /\ player_is_alive[i]
          /\ prev_masses[i] = player_mass_base
          /\ Sum(pellet_credit[i], Pellets) + Sum(player_credit[i], Players) = 0
          /\ player_masses[i] = player_mass_base

\* C9: kill-on-exit.  A living agent whose move in a step takes a coordinate
\* below 0 or to 1 or beyond is not alive and has mass 0 when that step returns.
KillOnExit ==
    [][\A i \in Players :
          (initialized /\ call' = "step" /\ player_is_alive[i]
             /\ \E c \in 1..2 : player_locations'[i][c] < 0
                                   \/ player_locations'[i][c] >= WorldSize)
              => (~player_is_alive'[i] /\ player_masses'[i] = 0)]_vars

\* C9 witness: an agent that left the square in the step in which it was
\* credited a pellet, and is dead with mass 0.
ExitedWhileEating ==
    /\ Stepped
    /\ \E i \in Players :
          /\ prev_masses[i] > 0
          /\ \E c \in 1..2 : player_locations[i][c] < 0 \/ player_locations[i][c] >= WorldSize
          /\ \E k \in Pellets : pellet_credit[i][k] > 0
          /\ ~player_is_alive[i]
          /\ player_masses[i] = 0

\* C10: the radii of the info returned by reset and by step are those of the
\* masses at the end of that call.
RadiiOfCurrentMasses ==
    initialized =>
        \A i \in Players :
            player_radii[i] = player_masses[i] * sqrt_mass_to_radius * sqrt_mass_to_radius

====
